---- MODULE Spec2Model ----
(***************************************************************************)
(* The RPC dispatch loop of ykman.rpc: process() and its reader thread     *)
(* _handle_incoming(), sharing a threading.Event and a queue.Queue(1).     *)
(***************************************************************************)
EXTENDS Naturals, Sequences, FiniteSets

(* ------------------------------------------------------------------ *)
(* Bounds of the model                                                 *)
(* ------------------------------------------------------------------ *)
\* frames the reader receives from the inbound stream before end-of-stream
MaxFrames == 3

(* ------------------------------------------------------------------ *)
(* Python values: None and dict                                        *)
(* ------------------------------------------------------------------ *)
None == [type |-> "NoneType"]
Dict(d) == [type |-> "dict", items |-> d]
EmptyDict == <<>>
EmptyList == <<>>

\* bool(v): None and {} are falsy
Truthy(v) == v.type # "NoneType" /\ DOMAIN v.items # {}

\* dict.get(key, default)
Get(d, key, default) == IF key \in DOMAIN d THEN d[key] ELSE default

(* ------------------------------------------------------------------ *)
(* Inbound frames recv() may return (recv: Callable[[], Dict])         *)
(* ------------------------------------------------------------------ *)
CmdA == Dict([kind |-> "command", action |-> "a"])
CmdB == Dict([kind |-> "command", action |-> "b", target |-> <<"t">>,
              body |-> [x |-> "1"]])
CmdNoAction == Dict([kind |-> "command"])
Cancel == Dict([kind |-> "signal", status |-> "cancel"])
OtherSignal == Dict([kind |-> "signal", status |-> "other"])
SignalNoStatus == Dict([kind |-> "signal"])
UnknownKind == Dict([kind |-> "unknown"])
NoKind == Dict([action |-> "a"])
EmptyFrame == Dict(EmptyDict)

Frames == {CmdA, CmdB, CmdNoAction, Cancel, OtherSignal, SignalNoStatus,
           UnknownKind, NoKind, EmptyFrame}

(* ------------------------------------------------------------------ *)
(* What a handler invocation may do                                    *)
(* ------------------------------------------------------------------ *)
Returned(v) == [kind |-> "return", value |-> v]
RpcException(status, message, body) ==
    [kind |-> "RpcException", status |-> status, message |-> message,
     body |-> body]
Exception(repr) == [kind |-> "Exception", repr |-> repr]

HandlerOutcomes ==
    { Returned([items |-> "none"]),
      RpcException("not-found", "no such action", [detail |-> "d"]),
      Exception("ValueError('boom')") }

\* the statuses the handler reports through signal(), each at most once in a
\* session
ProgressStatuses == {"touch"}

(* ------------------------------------------------------------------ *)
(* State                                                               *)
(* ------------------------------------------------------------------ *)
VARIABLES
    inbound,     \* every frame recv() has returned, in order
    rpc,         \* reader thread: position in _handle_incoming
    request,     \* reader thread: local `request`
    event,       \* threading.Event: TRUE when set
    queue,       \* cmd_queue: the items held
    unfinished,  \* cmd_queue.unfinished_tasks
    dpc,         \* main thread: position in process
    drequest,    \* main thread: local `request`
    dresult,     \* main thread: outcome of the handler call
    signalled,   \* the statuses the handler has passed to signal() so far
    calls,       \* arguments of every handler invocation, in order
    outcomes,    \* outcome of every finished handler invocation, in order
    outbound     \* every frame passed to send(), in order

vars == <<inbound, rpc, request, event, queue, unfinished,
          dpc, drequest, dresult, signalled, calls, outcomes, outbound>>

readerVars == <<rpc, request>>
queueVars == <<queue, unfinished>>
mainVars == <<dpc, drequest, dresult, signalled, calls, outcomes>>

\* Queue(1)
maxsize == 1

NoResult == [kind |-> "none"]

Init ==
    /\ inbound = <<>>
    /\ rpc = "recv"
    /\ request = None
    /\ event = FALSE
    /\ queue = <<>>
    /\ unfinished = 0
    /\ dpc = "get"
    /\ drequest = None
    /\ dresult = NoResult
    /\ signalled = {}
    /\ calls = <<>>
    /\ outcomes = <<>>
    /\ outbound = <<>>

(* ------------------------------------------------------------------ *)
(* Outbound frames: error(), signal(), success() of process()          *)
(* ------------------------------------------------------------------ *)
error(status, message, body) ==
    [kind |-> "error", status |-> status, message |-> message, body |-> body]

signal(status, body) == [kind |-> "signal", status |-> status, body |-> body]

success(body) == [kind |-> "success", body |-> body]

(* ------------------------------------------------------------------ *)
(* The reader thread: _handle_incoming                                 *)
(* ------------------------------------------------------------------ *)
\* a loop body that takes every signal for a cancel signal
Route_AnySignalCancels(req) ==
    IF ~Truthy(req) THEN [pc |-> "exit"]
    ELSE IF "kind" \notin DOMAIN req.items
        THEN [pc |-> "error", status |-> "invalid-command",
              message |-> "'kind'"]
    ELSE IF req.items.kind = "signal" THEN [pc |-> "set"]
    ELSE IF req.items.kind = "command" THEN [pc |-> "join"]
    ELSE [pc |-> "error", status |-> "invalid-command",
          message |-> "Unsupported request type"]

\* Where the loop body takes a received request: the next position and, for
\* the error positions, the arguments of error().
Route(req) ==
    IF ~Truthy(req) THEN [pc |-> "exit"]
    ELSE IF "kind" \notin DOMAIN req.items
        THEN [pc |-> "error", status |-> "invalid-command",
              message |-> "'kind'"]
    ELSE IF req.items.kind = "signal"
        THEN IF "status" \notin DOMAIN req.items
                THEN [pc |-> "error", status |-> "invalid-command",
                      message |-> "'status'"]
             ELSE IF req.items.status = "cancel"
                THEN [pc |-> "set"]
             ELSE [pc |-> "recv"]
    ELSE IF req.items.kind = "command"
        THEN [pc |-> "join"]
    ELSE [pc |-> "error", status |-> "invalid-command",
          message |-> "Unsupported request type"]

\* request = recv() returns the frame f. The frame is written by the peer and
\* received by the reader in this one step: the reader cannot tell a frame
\* that waited in the transport from one that has just arrived.
ReaderRecv(f) ==
    /\ rpc = "recv"
    /\ Len(inbound) < MaxFrames
    /\ inbound' = Append(inbound, f)
    /\ request' = f
    /\ rpc' = Route(f).pc
    /\ UNCHANGED <<event, queueVars, mainVars, outbound>>

\* request = recv() returns None: end of stream
ReaderRecvEnd ==
    /\ rpc = "recv"
    /\ request' = None
    /\ rpc' = Route(None).pc
    /\ UNCHANGED <<inbound, event, queueVars, mainVars, outbound>>

\* recv() raises: the call stands before the try statement, so the exception
\* leaves _handle_incoming and the reader thread ends where it stands (the
\* recv of run_rpc_pipes raises on a line that is not JSON)
ReaderRecvRaises ==
    /\ rpc = "recv"
    /\ rpc' = "raised"
    /\ UNCHANGED <<inbound, request, event, queueVars, mainVars, outbound>>

\* a reader that hands a cancel signal to the main thread through the queue
ReaderCancel_ViaQueue ==
    /\ rpc = "set"
    /\ Len(queue) < maxsize
    /\ queue' = Append(queue, request)
    /\ unfinished' = unfinished + 1
    /\ event' = TRUE
    /\ rpc' = "recv"
    /\ UNCHANGED <<inbound, request, mainVars, outbound>>

\* a reader that handles a cancel signal like a command: only once the
\* previous command has completed
ReaderCancel_AfterJoin ==
    /\ rpc = "set"
    /\ unfinished = 0
    /\ event' = TRUE
    /\ rpc' = "recv"
    /\ UNCHANGED <<inbound, request, queueVars, mainVars, outbound>>

\* event.set() for a cancel signal
ReaderCancel ==
    /\ rpc = "set"
    /\ event' = TRUE
    /\ rpc' = "recv"
    /\ UNCHANGED <<inbound, request, queueVars, mainVars, outbound>>

\* a reader that does not wait for the previous command to complete
ReaderJoin_NoWait ==
    /\ rpc = "join"
    /\ rpc' = "clear"
    /\ UNCHANGED <<inbound, request, event, queueVars, mainVars, outbound>>

\* cmd_queue.join()
ReaderJoin ==
    /\ rpc = "join"
    /\ unfinished = 0
    /\ rpc' = "clear"
    /\ UNCHANGED <<inbound, request, event, queueVars, mainVars, outbound>>

\* a reader that does not reset the event for the next command
ReaderClear_NoReset ==
    /\ rpc = "clear"
    /\ rpc' = "put"
    /\ UNCHANGED <<inbound, request, event, queueVars, mainVars, outbound>>

\* event.clear()
ReaderClear ==
    /\ rpc = "clear"
    /\ event' = FALSE
    /\ rpc' = "put"
    /\ UNCHANGED <<inbound, request, queueVars, mainVars, outbound>>

\* cmd_queue.put(request)
ReaderPut ==
    /\ rpc = "put"
    /\ Len(queue) < maxsize
    /\ queue' = Append(queue, request)
    /\ unfinished' = unfinished + 1
    /\ rpc' = "recv"
    /\ UNCHANGED <<inbound, request, event, mainVars, outbound>>

\* error(...) from the loop body calls send()
ReaderError ==
    /\ rpc = "error"
    /\ outbound' = Append(outbound,
                          error(Route(request).status, Route(request).message,
                                EmptyDict))
    /\ rpc' = "send"
    /\ UNCHANGED <<inbound, request, event, queueVars, mainVars>>

\* send() returns to the loop
ReaderSent ==
    /\ rpc = "send"
    /\ rpc' = "recv"
    /\ UNCHANGED <<inbound, request, event, queueVars, mainVars, outbound>>

\* a reader that leaves its loop without setting the event
ReaderExitSet_NoSet ==
    /\ rpc = "exit"
    /\ rpc' = "put_none"
    /\ UNCHANGED <<inbound, request, event, queueVars, mainVars, outbound>>

\* event.set() after the loop
ReaderExitSet ==
    /\ rpc = "exit"
    /\ event' = TRUE
    /\ rpc' = "put_none"
    /\ UNCHANGED <<inbound, request, queueVars, mainVars, outbound>>

\* a reader that ends without enqueuing the sentinel
ReaderPutNone_NoSentinel ==
    /\ rpc = "put_none"
    /\ rpc' = "return"
    /\ UNCHANGED <<inbound, request, event, queueVars, mainVars, outbound>>

\* a reader that enqueues the request it last received instead of None
ReaderPutNone_PutsRequest ==
    /\ rpc = "put_none"
    /\ Len(queue) < maxsize
    /\ queue' = Append(queue, request)
    /\ unfinished' = unfinished + 1
    /\ rpc' = "return"
    /\ UNCHANGED <<inbound, request, event, mainVars, outbound>>

\* a reader whose sentinel takes the place of whatever the queue holds
ReaderPutNone_Overwrites ==
    /\ rpc = "put_none"
    /\ queue' = <<None>>
    /\ unfinished' = unfinished + 1
    /\ rpc' = "return"
    /\ UNCHANGED <<inbound, request, event, mainVars, outbound>>

\* cmd_queue.put(None)
ReaderPutNone ==
    /\ rpc = "put_none"
    /\ Len(queue) < maxsize
    /\ queue' = Append(queue, None)
    /\ unfinished' = unfinished + 1
    /\ rpc' = "return"
    /\ UNCHANGED <<inbound, request, event, mainVars, outbound>>

\* _handle_incoming returns: the reader thread ends
ReaderReturn ==
    /\ rpc = "return"
    /\ rpc' = "done"
    /\ UNCHANGED <<inbound, request, event, queueVars, mainVars, outbound>>

Reader ==
    \/ \E f \in Frames : ReaderRecv(f)
    \/ ReaderRecvEnd
    \/ ReaderRecvRaises
    \/ ReaderCancel
    \/ ReaderJoin
    \/ ReaderClear
    \/ ReaderPut
    \/ ReaderError
    \/ ReaderSent
    \/ ReaderExitSet
    \/ ReaderPutNone
    \/ ReaderReturn

(* ------------------------------------------------------------------ *)
(* The main thread: the loop of process()                              *)
(* ------------------------------------------------------------------ *)
\* a main thread that acknowledges the sentinel before leaving the loop
DispatchGet_AcksSentinel ==
    /\ dpc = "get"
    /\ queue # <<>>
    /\ drequest' = Head(queue)
    /\ queue' = Tail(queue)
    /\ dpc' = IF Head(queue) = None THEN "join" ELSE "call"
    /\ unfinished' = IF Head(queue) = None THEN unfinished - 1
                     ELSE unfinished
    /\ UNCHANGED <<inbound, readerVars, event, dresult, signalled,
                   calls, outcomes, outbound>>

\* request = cmd_queue.get(); if request is None: break
DispatchGet ==
    /\ dpc = "get"
    /\ queue # <<>>
    /\ drequest' = Head(queue)
    /\ queue' = Tail(queue)
    /\ dpc' = IF Head(queue) = None THEN "join" ELSE "call"
    /\ UNCHANGED <<inbound, readerVars, event, unfinished, dresult, signalled,
                   calls, outcomes, outbound>>

\* the arguments of handler(...)
HandlerArgs(req) ==
    [action |-> req.items.action,
     target |-> Get(req.items, "target", EmptyList),
     body |-> Get(req.items, "body", EmptyDict)]

\* handler(request["action"], ...) is called; request["action"] raises
\* KeyError when the key is missing
DispatchCall ==
    /\ dpc = "call"
    /\ IF "action" \in DOMAIN drequest.items
          THEN /\ calls' = Append(calls, HandlerArgs(drequest))
               /\ dpc' = "handler"
               /\ UNCHANGED dresult
          ELSE /\ dresult' = Exception("KeyError('action')")
               /\ dpc' = "respond"
               /\ UNCHANGED calls
    /\ UNCHANGED <<inbound, readerVars, event, queueVars, drequest, signalled,
                   outcomes, outbound>>

\* a signal callback that defers the frame: it is sent once the response of
\* the command has been sent
HandlerSignal_AfterResponse(status) ==
    /\ dpc = "task_done"
    /\ status \notin signalled
    /\ signalled' = signalled \cup {status}
    /\ outbound' = Append(outbound, signal(status, EmptyDict))
    /\ UNCHANGED <<inbound, readerVars, event, queueVars, dpc, drequest,
                   dresult, calls, outcomes>>

\* the handler calls signal(status), which calls send()
HandlerSignal(status) ==
    /\ dpc = "handler"
    /\ status \notin signalled
    /\ signalled' = signalled \cup {status}
    /\ outbound' = Append(outbound, signal(status, EmptyDict))
    /\ dpc' = "signal"
    /\ UNCHANGED <<inbound, readerVars, event, queueVars, drequest,
                   dresult, calls, outcomes>>

\* send() returns to the handler
HandlerSignalled ==
    /\ dpc = "signal"
    /\ dpc' = "handler"
    /\ UNCHANGED <<inbound, readerVars, event, queueVars, drequest,
                   dresult, signalled, calls, outcomes, outbound>>

\* the handler returns or raises
HandlerFinish(outcome) ==
    /\ dpc = "handler"
    /\ dresult' = outcome
    /\ outcomes' = Append(outcomes, outcome)
    /\ dpc' = "respond"
    /\ UNCHANGED <<inbound, readerVars, event, queueVars, drequest, signalled,
                   calls, outbound>>

\* a try statement whose catch-all also takes the structured failures
Respond_AllAsException(outcome) ==
    IF outcome.kind = "return" THEN success(outcome.value)
    ELSE IF outcome.kind = "RpcException"
        THEN error("exception", outcome.message, EmptyDict)
    ELSE error("exception", outcome.repr, EmptyDict)

\* the frame the try statement sends for an outcome
Respond(outcome) ==
    IF outcome.kind = "return" THEN success(outcome.value)
    ELSE IF outcome.kind = "RpcException"
        THEN error(outcome.status, outcome.message, outcome.body)
    ELSE error("exception", outcome.repr, EmptyDict)

\* a try statement without the catch-all: an unstructured failure is not
\* answered
DispatchRespond_NoCatchAll ==
    /\ dpc = "respond"
    /\ outbound' = IF dresult.kind = "Exception" THEN outbound
                   ELSE Append(outbound, Respond(dresult))
    /\ dpc' = "send"
    /\ UNCHANGED <<inbound, readerVars, event, queueVars, drequest, dresult,
                   signalled, calls, outcomes>>

\* success(...) or error(...) calls send()
DispatchRespond ==
    /\ dpc = "respond"
    /\ outbound' = Append(outbound, Respond(dresult))
    /\ dpc' = "send"
    /\ UNCHANGED <<inbound, readerVars, event, queueVars, drequest, dresult,
                   signalled, calls, outcomes>>

\* send() returns to the loop
DispatchSent ==
    /\ dpc = "send"
    /\ dpc' = "task_done"
    /\ UNCHANGED <<inbound, readerVars, event, queueVars, drequest, dresult,
                   signalled, calls, outcomes, outbound>>

\* task_done() inside the try block: issued only when the handler returned
DispatchTaskDone_OnlyOnSuccess ==
    /\ dpc = "task_done"
    /\ unfinished' = IF dresult.kind = "return" THEN unfinished - 1
                     ELSE unfinished
    /\ dresult' = NoResult
    /\ dpc' = "get"
    /\ UNCHANGED <<inbound, readerVars, event, queue, drequest, signalled, calls,
                   outcomes, outbound>>

\* cmd_queue.task_done()
DispatchTaskDone ==
    /\ dpc = "task_done"
    /\ unfinished' = unfinished - 1
    /\ dresult' = NoResult
    /\ dpc' = "get"
    /\ UNCHANGED <<inbound, readerVars, event, queue, drequest, signalled, calls,
                   outcomes, outbound>>

\* a process() that returns without waiting for the reader thread
DispatchJoin_NoWait ==
    /\ dpc = "join"
    /\ dpc' = "returned"
    /\ UNCHANGED <<inbound, readerVars, event, queueVars, drequest, dresult,
                   signalled, calls, outcomes, outbound>>

\* read_thread.join(): returns once the reader thread has ended
DispatchJoin ==
    /\ dpc = "join"
    /\ rpc = "done"
    /\ dpc' = "returned"
    /\ UNCHANGED <<inbound, readerVars, event, queueVars, drequest, dresult,
                   signalled, calls, outcomes, outbound>>

Handler ==
    \/ \E s \in ProgressStatuses : HandlerSignal(s)
    \/ HandlerSignalled
    \/ \E o \in HandlerOutcomes : HandlerFinish(o)

Dispatcher ==
    \/ DispatchGet
    \/ DispatchCall
    \/ DispatchRespond
    \/ DispatchSent
    \/ DispatchTaskDone
    \/ DispatchJoin

Next == Reader \/ Handler \/ Dispatcher

Spec == Init /\ [][Next]_vars

\* Every thread step the scheduler owes the program: the reader's steps other
\* than recv() (which waits for the peer), the main thread's steps, send()
\* returning, and the handler returning or raising.
ReaderProgress ==
    \/ ReaderCancel
    \/ ReaderJoin
    \/ ReaderClear
    \/ ReaderPut
    \/ ReaderError
    \/ ReaderSent
    \/ ReaderExitSet
    \/ ReaderPutNone
    \/ ReaderReturn

HandlerCompletes ==
    \/ HandlerSignalled
    \/ \E o \in HandlerOutcomes : HandlerFinish(o)

FairSpec ==
    /\ Spec
    /\ WF_vars(ReaderProgress)
    /\ WF_vars(Dispatcher)
    /\ WF_vars(HandlerCompletes)

(* ------------------------------------------------------------------ *)
(* Vocabulary of the properties                                        *)
(* ------------------------------------------------------------------ *)
IsCommand(f) ==
    /\ f.type = "dict"
    /\ "kind" \in DOMAIN f.items
    /\ f.items.kind = "command"

IsWellFormedCommand(f) == IsCommand(f) /\ "action" \in DOMAIN f.items

\* the command frames received so far, in order
Commands == SelectSeq(inbound, IsCommand)

\* the reader holds a received command it has not enqueued yet
ReaderHoldsCommand == rpc \in {"join", "clear", "put"}

\* commands the reader has enqueued so far
NPut == Len(Commands) - (IF ReaderHoldsCommand THEN 1 ELSE 0)

\* A final response of the dispatcher. The reader's own error frames all carry
\* status invalid-command, which no outcome of HandlerOutcomes uses.
IsResponse(f) ==
    \/ f.kind = "success"
    \/ f.kind = "error" /\ f.status # "invalid-command"

Responses == SelectSeq(outbound, IsResponse)

\* the main thread holds a dequeued command: from get() to task_done()
DispatcherBusy ==
    dpc \in {"call", "handler", "signal", "respond", "send", "task_done"}

\* a handler invocation is active
HandlerRunning == dpc \in {"handler", "signal"}

CommandQueued == queue # <<>> /\ Head(queue) # None

\* a command is enqueued or being handled, not yet acknowledged
CommandInFlight == CommandQueued \/ DispatcherBusy

\* the reader has left its loop
ReaderEnded == rpc \in {"exit", "put_none", "return", "done"}

\* the reader thread has not ended
ReaderAlive == rpc \notin {"done", "raised"}

\* the reader has enqueued the sentinel
SentinelPut == rpc \in {"return", "done"}

(* ------------------------------------------------------------------ *)
(* C1                                                                  *)
(* ------------------------------------------------------------------ *)
\* C1: handler invocations never overlap. While the main thread holds a
\* command (from get() to task_done()) no further command is in the queue
\* and a reader holding a further command is still waiting in join(); and
\* when command number k is passed to the handler, exactly k-1 responses
\* have been sent and every earlier command has been acknowledged
\* (the only outstanding task is the command itself).
C1_NoOverlap ==
    /\ DispatcherBusy =>
          /\ ~CommandQueued
          /\ rpc \notin {"clear", "put"}
          /\ unfinished >= 1
    /\ dpc \in {"call", "handler", "signal", "respond"} =>
          /\ Len(Responses) = NPut - 1
          /\ ~SentinelPut => unfinished = 1

\* a second command has been received while the first is being handled
C1_Witness ==
    /\ HandlerRunning
    /\ rpc = "join"
    /\ Len(Commands) = 2
    /\ Len(calls) = 1

(* ------------------------------------------------------------------ *)
(* C2                                                                  *)
(* ------------------------------------------------------------------ *)
OnlyWellFormedCommands ==
    \A i \in 1..Len(inbound) : IsWellFormedCommand(inbound[i])

\* the frame a response to `outcome` has to be, field by field
IsResponseTo(f, outcome) ==
    IF outcome.kind = "return"
        THEN f.kind = "success" /\ f.body = outcome.value
    ELSE IF outcome.kind = "RpcException"
        THEN /\ f.kind = "error"
             /\ f.status = outcome.status
             /\ f.message = outcome.message
    ELSE f.kind = "error" /\ f.status = "exception"

\* C2: on a stream of well-formed command frames the handler is invoked for
\* the commands in the order received (invocation i carries the action,
\* target and body of frame i), every finished invocation gets exactly one
\* response, the responses are in the order of the invocations, and when
\* process() has returned there is one response per command received.
C2_InOrderOneResponseEach ==
    OnlyWellFormedCommands =>
        /\ Len(calls) <= Len(inbound)
        /\ \A i \in 1..Len(calls) :
              /\ calls[i].action = inbound[i].items.action
              /\ calls[i].target = Get(inbound[i].items, "target", <<>>)
              /\ calls[i].body = Get(inbound[i].items, "body", <<>>)
        /\ Len(outcomes) = Len(calls) - (IF HandlerRunning THEN 1 ELSE 0)
        /\ Len(Responses) = Len(outcomes) - (IF dpc = "respond" THEN 1 ELSE 0)
        /\ \A i \in 1..Len(Responses) : IsResponseTo(Responses[i], outcomes[i])
        /\ \A i \in 1..Len(outbound) : outbound[i].kind # "signal" =>
              IsResponse(outbound[i])
        /\ dpc = "returned" => Len(Responses) = Len(inbound)

\* two different commands were received back-to-back, handled with different
\* outcomes, and process() has returned
C2_Witness ==
    /\ dpc = "returned"
    /\ Len(inbound) >= 2
    /\ OnlyWellFormedCommands
    /\ inbound[1] # inbound[2]
    /\ outcomes[1] # outcomes[2]

(* ------------------------------------------------------------------ *)
(* C3                                                                  *)
(* ------------------------------------------------------------------ *)
\* the position in inbound of the command most recently enqueued
LastPutIndex ==
    LET put == { i \in 1..Len(inbound) :
                    /\ IsCommand(inbound[i])
                    /\ ~(i = Len(inbound) /\ ReaderHoldsCommand) }
    IN CHOOSE i \in put : \A j \in put : j <= i

\* the reader has processed the cancel signal received as frame j
CancelProcessed(j) ==
    /\ inbound[j] = Cancel
    /\ ~(j = Len(inbound) /\ rpc = "set")

\* since enqueuing the last command the reader has processed a cancel signal
\* or has set the event on leaving its loop
CancelledSincePut ==
    \/ \E j \in (LastPutIndex + 1)..Len(inbound) : CancelProcessed(j)
    \/ rpc \in {"put_none", "return", "done"}

\* the step in which the main thread calls the handler
HandlerStarts == dpc = "call" /\ dpc' = "handler"

\* C3 as claimed: whenever the dispatcher starts the handler for a command
\* the cancellation token is not set.
C3_Original_TokenClearAtStart == [][HandlerStarts => ~event]_vars

\* C3 as amended: the token is not set when the reader enqueues a command,
\* and while the command waits for its handler to start (in the queue, or
\* dequeued and about to be passed to the handler) the token is set exactly
\* if the reader has, since enqueuing the command, processed a cancel signal
\* or reached the end of the stream; signals before the enqueue never show.
C3_TokenAtStart ==
    /\ rpc = "put" => ~event
    /\ (CommandQueued \/ dpc = "call") => (event <=> CancelledSincePut)

\* a command is about to be passed to the handler with the token clear,
\* although a cancel signal was processed before the command was enqueued
C3_Witness ==
    /\ dpc = "call"
    /\ "action" \in DOMAIN drequest.items
    /\ ~event
    /\ \E j \in 1..(LastPutIndex - 1) : inbound[j] = Cancel

(* ------------------------------------------------------------------ *)
(* C4                                                                  *)
(* ------------------------------------------------------------------ *)
\* C4: processing a cancel signal sets the token, and a token that is set
\* while a command is in flight (enqueued or held by the main thread, not
\* yet acknowledged by task_done) is still set after every step: it is never
\* cleared before the acknowledgment, so never while a handler invocation
\* is active.
C4_TokenStaysSet ==
    [][ /\ (rpc = "set" /\ rpc' # "set") => event'
        /\ (CommandInFlight /\ event) => event' ]_vars

\* a handler invocation is running with the token set by a cancel signal,
\* and the reader has already received the next command
C4_Witness ==
    /\ HandlerRunning
    /\ event
    /\ rpc = "join"
    /\ \E j \in (LastPutIndex + 1)..Len(inbound) : inbound[j] = Cancel

(* ------------------------------------------------------------------ *)
(* C5                                                                  *)
(* ------------------------------------------------------------------ *)
\* C5 as claimed: while a handler invocation is running the reader never has
\* to wait for it: unless it has finished, the reader can always take its
\* next step, so any cancel frame on the stream gets processed.
C5_Original_ReaderNeverWaits ==
    (HandlerRunning /\ ReaderAlive) => ENABLED Reader

\* C5 as amended: a cancel signal that is the next frame the reader receives
\* is processed without waiting for the dispatcher: receiving it and setting
\* the token are possible whatever the main thread is doing. While a handler
\* invocation is running the reader waits nowhere but in join(), where it
\* stands only after receiving a further command frame; a cancel behind that
\* command frame is not processed before the earlier command's task_done.
C5_ReaderWaitsOnlyInJoin ==
    /\ (rpc = "recv" /\ Len(inbound) < MaxFrames) => ENABLED ReaderRecv(Cancel)
    /\ rpc = "set" => ENABLED ReaderCancel
    /\ (HandlerRunning /\ ReaderAlive /\ ~ENABLED Reader) =>
          /\ rpc = "join"
          /\ IsCommand(request)
    /\ (rpc = "join" /\ CommandInFlight) => ~ENABLED Reader

\* the reader has received a cancel signal while a handler invocation is
\* running and is about to set the token
C5_Witness ==
    /\ HandlerRunning
    /\ rpc = "set"
    /\ request = Cancel

(* ------------------------------------------------------------------ *)
(* C6                                                                  *)
(* ------------------------------------------------------------------ *)
\* process() has returned after the shutdown sequence: token set, sentinel
\* enqueued by the reader and dequeued by the main thread, loop left
Terminated ==
    /\ dpc = "returned"
    /\ rpc = "done"
    /\ event
    /\ queue = <<>>
    /\ drequest = None

\* C6: once recv() has reported the end of the stream, and with every thread
\* scheduled fairly and every handler invocation returning or raising, the
\* token gets set, the sentinel is enqueued and dequeued, the loop of
\* process() is left and process() returns.
C6_EndOfStreamTerminates == (rpc = "exit") ~> Terminated

\* process() has returned on a session in which a command was handled
C6_Witness == Terminated /\ request = None /\ Len(calls) >= 1

(* ------------------------------------------------------------------ *)
(* C7                                                                  *)
(* ------------------------------------------------------------------ *)
\* the main thread passes one frame to send()
MainSends ==
    /\ Len(outbound') = Len(outbound) + 1
    /\ \/ dpc = "handler" /\ dpc' = "signal"
       \/ dpc = "respond" /\ dpc' = "send"

\* C7: once the reader has left its loop at the end of the stream, a frame
\* is sent only by the main thread for a command that was in flight when
\* the stream ended (a progress signal of its handler invocation, or its
\* response); no command comes into flight after the end, so with no command
\* pending at the end no frame at all is sent before process() returns, and
\* nothing is sent after the pending command's response.
C7_NoFramesAfterEnd ==
    [][ ReaderEnded =>
          /\ outbound' # outbound => (CommandInFlight /\ MainSends)
          /\ ~CommandInFlight => (~CommandInFlight' /\ outbound' = outbound)
          /\ dpc \in {"send", "task_done"} => outbound' = outbound ]_vars

\* the stream has ended and the response of the command that was pending
\* is about to be sent
C7_Witness ==
    /\ rpc = "done"
    /\ request = None
    /\ dpc = "respond"
    /\ Len(outbound) = 1
    /\ outbound[1].kind = "signal"

(* ------------------------------------------------------------------ *)
(* C8                                                                  *)
(* ------------------------------------------------------------------ *)
\* C8: the queue never holds more than one item, and whenever the reader is
\* about to enqueue a command (it has passed join() and stands before
\* put(request)) no task is outstanding and the queue is empty: every
\* command enqueued before has been acknowledged by task_done.
C8_SingleSlot ==
    /\ Len(queue) <= 1
    /\ rpc \in {"clear", "put"} =>
          /\ unfinished = 0
          /\ queue = <<>>
          /\ ~DispatcherBusy

\* the reader is about to enqueue a second command, the first one having
\* been handled
C8_Witness ==
    /\ rpc = "put"
    /\ Len(Commands) = 2
    /\ Len(Responses) = 1

(* ------------------------------------------------------------------ *)
(* C9                                                                  *)
(* ------------------------------------------------------------------ *)
\* C9: whatever the outcome of a dispatched command (the handler returned,
\* raised RpcException, raised anything else, or reading request["action"]
\* failed), the main thread acknowledges it: once it is back at get() with
\* an empty queue the only task that can be outstanding is the sentinel, so
\* a reader waiting in join() can proceed and enqueue the next command.
C9_AlwaysAcknowledged ==
    /\ (dpc = "get" /\ queue = <<>>) =>
          unfinished = (IF SentinelPut THEN 1 ELSE 0)
    /\ (dpc = "get" /\ queue = <<>> /\ rpc = "join") => ENABLED ReaderJoin
    /\ dpc \in {"respond", "send", "task_done"} =>
          dresult.kind \in {"return", "RpcException", "Exception"}

\* a command without action has failed in the main thread, has been
\* acknowledged, and the reader holding the next command can leave join()
C9_Witness ==
    /\ dpc = "get"
    /\ rpc = "join"
    /\ unfinished = 0
    /\ drequest = CmdNoAction
    /\ Len(Responses) = 1
    /\ Responses[1].kind = "error"

(* ------------------------------------------------------------------ *)
(* C10                                                                 *)
(* ------------------------------------------------------------------ *)
\* the frame the claim gives for an outcome
ClaimedFrame(outcome) ==
    CASE outcome.kind = "return" ->
            [kind |-> "success", body |-> outcome.value]
      [] outcome.kind = "RpcException" ->
            [kind |-> "error", status |-> outcome.status,
             message |-> outcome.message, body |-> outcome.body]
      [] OTHER ->
            [kind |-> "error", status |-> "exception",
             message |-> outcome.repr, body |-> <<>>]

\* C10: for each outcome the main thread sends exactly one frame, of the
\* shape of the outcome: success with the returned value as body, error with
\* the status, message and body of a structured failure, error with status
\* exception for any other failure; between the outcome and task_done it
\* sends nothing else.
C10_OutcomeToFrame ==
    [][ /\ (dpc = "respond" /\ dpc' # "respond") =>
              /\ dpc' = "send"
              /\ outbound' = Append(outbound, ClaimedFrame(dresult))
        /\ (dpc \in {"send", "task_done"} /\ rpc' = rpc) =>
              outbound' = outbound ]_vars

\* the response to a structured failure has just been sent
C10_Witness ==
    /\ dpc = "send"
    /\ dresult.kind = "RpcException"
    /\ outbound # <<>>
    /\ outbound[Len(outbound)].kind = "error"
    /\ outbound[Len(outbound)].status = "not-found"
    /\ outbound[Len(outbound)].body = [detail |-> "d"]

(* ------------------------------------------------------------------ *)
(* C11                                                                 *)
(* ------------------------------------------------------------------ *)
\* a frame of one of the four malformed shapes: kind absent, kind neither
\* command nor signal, a signal without status, a command without action
IsMalformed(f) ==
    /\ f.type = "dict"
    /\ \/ "kind" \notin DOMAIN f.items
       \/ /\ "kind" \in DOMAIN f.items
          /\ \/ f.items.kind \notin {"command", "signal"}
             \/ f.items.kind = "signal" /\ "status" \notin DOMAIN f.items
             \/ f.items.kind = "command" /\ "action" \notin DOMAIN f.items

\* this step sends an error frame of status invalid-command
SendsInvalidCommand ==
    /\ Len(outbound') = Len(outbound) + 1
    /\ outbound'[Len(outbound')].kind = "error"
    /\ outbound'[Len(outbound')].status = "invalid-command"

\* C11 as claimed: the step that answers a malformed frame sends an error
\* frame of status invalid-command, whether the frame is answered by the
\* reader (kind absent, kind unsupported, signal without status) or by the
\* main thread (command without action).
C11_Original_MalformedIsInvalidCommand ==
    [][ /\ (rpc = "error" /\ rpc' # "error") => SendsInvalidCommand
        /\ (dpc = "respond" /\ dpc' # "respond" /\ IsMalformed(drequest)) =>
              SendsInvalidCommand ]_vars

\* a command frame without action has been answered by the main thread with
\* an error frame of status exception
C11_Witness ==
    /\ dpc = "send"
    /\ drequest = CmdNoAction
    /\ inbound = <<CmdNoAction>>
    /\ outbound = <<error("exception", "KeyError('action')", EmptyDict)>>

(* ------------------------------------------------------------------ *)
(* C12                                                                 *)
(* ------------------------------------------------------------------ *)
IsError(f) == f.kind = "error"

\* the error frames sent so far, in order
Errors == SelectSeq(outbound, IsError)

\* the malformed frames received so far, in order (a frame without any field
\* has no kind, so it is one of them)
Malformed == SelectSeq(inbound, IsMalformed)

IsFailure(outcome) == outcome.kind # "return"

\* the handler invocations that raised
Failures == SelectSeq(outcomes, IsFailure)

\* C12 as claimed: only end-of-stream (recv() returning None) makes the
\* reader leave its loop, so a reader that has left it holds None and never a
\* frame; and every malformed frame is answered with exactly one error
\* frame: when process() has returned, the error frames sent are one per
\* malformed frame received and one per handler invocation that raised.
C12_Original_MalformedNeverStopsReader ==
    /\ ReaderEnded => request = None
    /\ Terminated => Len(Errors) = Len(Malformed) + Len(Failures)

\* the reader has left its loop on a frame without fields, received after a
\* malformed frame it answered, and process() has returned without an
\* answer to the frame without fields
C12_Witness ==
    /\ Terminated
    /\ request = EmptyFrame
    /\ inbound = <<UnknownKind, EmptyFrame>>
    /\ Len(outbound) = 1

ProgramStep == ReaderProgress \/ Dispatcher

\* the reader stands in an operation of the queue
ReaderAtQueue == rpc \in {"join", "put", "put_none"}

\* C14 as claimed: the reader and the main thread are never both blocked on
\* the queue, and whenever the program can take no step by itself the reader
\* is waiting in recv() for input, or a handler invocation is running, or
\* process() has returned.
C14_Original_DeadlockFree ==
    /\ ~(ReaderAtQueue /\ dpc = "get" /\ ~ENABLED ProgramStep)
    /\ ~ENABLED ProgramStep => (rpc = "recv" \/ HandlerRunning \/ Terminated)

\* the reader thread has ended on an exception of recv() after a command was
\* handled; the main thread waits in get() on an empty queue that nobody
\* will fill
C14_Witness ==
    /\ rpc = "raised"
    /\ dpc = "get"
    /\ queue = <<>>
    /\ Len(Responses) = 1
    /\ ~ENABLED Next

(* ------------------------------------------------------------------ *)
(* C15                                                                 *)
(* ------------------------------------------------------------------ *)
\* the reader thread is inside send(), called from error()
ReaderInSend == rpc = "send"

\* the main thread is inside send(), called from success(), error() or the
\* signal() the handler was given
MainInSend == dpc \in {"send", "signal"}

\* C15 as claimed: send() is never executed by the reader thread and the
\* main thread at overlapping times.
C15_Original_SendNeverOverlaps == ~(ReaderInSend /\ MainInSend)

\* the reader is sending the error frame for a frame of unsupported kind
\* while the main thread is sending the response of the command received
\* before it
C15_Witness ==
    /\ ReaderInSend
    /\ dpc = "send"
    /\ inbound = <<CmdA, UnknownKind>>
    /\ Len(outbound) = 2

(* ------------------------------------------------------------------ *)
(* C16                                                                 *)
(* ------------------------------------------------------------------ *)
\* this step passes a signal frame to send()
SignalSent ==
    /\ Len(outbound') = Len(outbound) + 1
    /\ outbound'[Len(outbound')].kind = "signal"

\* C16: a signal frame is sent only by a running handler invocation, at a
\* moment when every command enqueued before the invocation's own has its
\* response on the outbound stream and its own has none; and no response is
\* sent until the send() of the signal has returned to the handler. The
\* signal frames of an invocation therefore lie between the response of
\* the previous command and the response of its own.
C16_SignalsWithinCommand ==
    [][ /\ SignalSent =>
              /\ dpc = "handler"
              /\ dpc' = "signal"
              /\ Len(Responses) = NPut - 1
              /\ Len(outcomes) = Len(calls) - 1
        /\ dpc = "signal" => Responses' = Responses ]_vars

\* the handler invocation of the second command is sending a progress
\* signal, after the response of the first command
C16_Witness ==
    /\ dpc = "signal"
    /\ Len(calls) = 2
    /\ Len(outbound) = 2
    /\ outbound[1].kind = "success"
    /\ outbound[2] = signal("touch", EmptyDict)

(* ------------------------------------------------------------------ *)
(* C17                                                                 *)
(* ------------------------------------------------------------------ *)
\* a signal frame that carries a status other than cancel
IsOtherSignal(f) ==
    /\ f.type = "dict"
    /\ "kind" \in DOMAIN f.items
    /\ f.items.kind = "signal"
    /\ "status" \in DOMAIN f.items
    /\ f.items.status # "cancel"

\* this step is recv() returning the frame f to the reader
Receives(f) ==
    /\ rpc = "recv"
    /\ inbound' = Append(inbound, f)

SentinelQueued == queue # <<>> /\ Head(queue) = None

\* the main thread has dequeued the sentinel
SentinelDequeued == dpc \in {"join", "returned"}

\* the reader has executed the event.set() that follows its loop
ExitSetDone == rpc \in {"put_none", "return", "done"}

\* C18: from the event.set() after the reader's loop on, so before the
\* sentinel is enqueued, the token is set and stays set: it is set whenever
\* the sentinel is in the queue or has been dequeued, and whenever a command
\* is waiting for its handler or being handled after that point.
C18_TokenSetFromShutdown ==
    /\ ExitSetDone => event
    /\ SentinelQueued => (ExitSetDone /\ event)
    /\ SentinelDequeued => (ExitSetDone /\ event)
    /\ (ExitSetDone /\ (dpc = "call" \/ HandlerRunning)) => event

\* a handler invocation is running while the sentinel waits in the queue,
\* and the token is set although no cancel signal was ever received
C18_Witness ==
    /\ HandlerRunning
    /\ SentinelQueued
    /\ event
    /\ inbound = <<CmdA>>
    /\ request = None

(* ------------------------------------------------------------------ *)
(* C19                                                                 *)
(* ------------------------------------------------------------------ *)
\* C19: receiving a cancel signal and processing it change nothing but the
\* reader's position and the token: the step that processes it sets the
\* token and takes the reader back to recv(), with the queue, the
\* outstanding-task count and the outbound stream as they were. The step
\* that enqueues a command leaves the token clear, so a token found set
\* while that command waits for its handler comes from a cancel signal
\* processed (or a shutdown begun) after the enqueue, never from an earlier
\* cancel signal.
C19_CancelBypassesQueue ==
    [][ /\ Receives(Cancel) =>
              /\ rpc' = "set"
              /\ event' = event
              /\ queue' = queue
              /\ unfinished' = unfinished
              /\ outbound' = outbound
        /\ (rpc = "set" /\ rpc' # "set") =>
              /\ rpc' = "recv"
              /\ event'
              /\ queue' = queue
              /\ unfinished' = unfinished
              /\ outbound' = outbound
        /\ (rpc = "put" /\ rpc' # "put") =>
              /\ ~event'
              /\ queue' = <<request>>
        /\ ((CommandQueued \/ dpc = "call") /\ event) => CancelledSincePut
      ]_vars

\* a cancel signal was processed between two commands; the second command
\* is in the queue, the first has been answered, and the token is clear
C19_Witness ==
    /\ inbound = <<CmdA, Cancel, CmdB>>
    /\ queue = <<CmdB>>
    /\ Len(Responses) = 1
    /\ rpc = "recv"
    /\ ~event

(* ------------------------------------------------------------------ *)
(* C20                                                                 *)
(* ------------------------------------------------------------------ *)
\* the command frames with an action received so far, in order
WellFormedCommands == SelectSeq(inbound, IsWellFormedCommand)

\* the main thread holds a command it has not answered yet
Unanswered == dpc \in {"call", "handler", "signal", "respond"}

\* C20: the sentinel enters the queue only behind the last command: once it
\* has been enqueued no command is in the queue, every command received has
\* been enqueued, and each of them has its one response except the one the
\* main thread is still working on. When the main thread has dequeued the
\* sentinel every command received has exactly one response, and the
\* handler was invoked, and has finished, for every command that carries
\* an action.
C20_ShutdownDropsNoCommand ==
    /\ SentinelPut =>
          /\ ~CommandQueued
          /\ NPut = Len(Commands)
          /\ Len(Responses) = Len(Commands) - (IF Unanswered THEN 1 ELSE 0)
    /\ SentinelQueued => queue = <<None>>
    /\ SentinelDequeued =>
          /\ Len(Responses) = Len(Commands)
          /\ Len(calls) = Len(WellFormedCommands)
          /\ Len(outcomes) = Len(calls)

\* the stream ended right after a command: the command has been handled and
\* answered while the sentinel waits behind it in the queue
C20_Witness ==
    /\ SentinelQueued
    /\ dpc = "task_done"
    /\ inbound = <<CmdB>>
    /\ Len(calls) = 1
    /\ Len(Responses) = 1

(* ------------------------------------------------------------------ *)
(* C21                                                                 *)
(* ------------------------------------------------------------------ *)
\* the queue holds as many items as Queue(1) admits: a put() blocks
QueueFull == Len(queue) >= maxsize

\* C21: from the return of join() to put(request) the queue is empty, so
\* put(request) can always be executed at once; a live reader that cannot
\* step is waiting in join() or in the put() of the sentinel; and a put()
\* that finds the queue full is the put() of the sentinel, kept waiting by
\* a command that has not been dequeued yet.
C21_CommandPutNeverBlocks ==
    /\ rpc \in {"clear", "put"} => queue = <<>>
    /\ rpc = "put" => ENABLED ReaderPut
    /\ (ReaderAlive /\ ~ENABLED Reader) => rpc \in {"join", "put_none"}
    /\ (rpc \in {"put", "put_none"} /\ QueueFull) =>
          /\ rpc = "put_none"
          /\ CommandQueued
          /\ ~ENABLED Reader

\* after a second command was enqueued into an empty queue the stream ended,
\* and the put() of the sentinel waits for the main thread to dequeue it
C21_Witness ==
    /\ rpc = "put_none"
    /\ inbound = <<CmdA, CmdB>>
    /\ queue = <<CmdB>>
    /\ Len(Responses) = 1
    /\ ~ENABLED Reader

(* ------------------------------------------------------------------ *)
(* C22                                                                 *)
(* ------------------------------------------------------------------ *)
\* this step appends None to the queue
SentinelEnqueued ==
    /\ Len(queue') = Len(queue) + 1
    /\ queue'[Len(queue')] = None

\* C22: None is enqueued only by the put() after the reader's loop, which
\* is executed at most once, and by the time process() returns it has been
\* executed; once the sentinel has been enqueued the queue never gains an
\* item; the handler is invoked only for a dequeued request that is not
\* None; the outstanding-task count is lowered only by the task_done of a
\* dequeued command, never for the sentinel, so it is 1 when process()
\* returns.
C22_SentinelOnce ==
    [][ /\ SentinelEnqueued => (rpc = "put_none" /\ ~SentinelPut)
        /\ (~SentinelPut /\ SentinelPut') => SentinelEnqueued
        /\ SentinelPut => (SentinelPut' /\ Len(queue') <= Len(queue))
        /\ Len(calls') > Len(calls) => drequest # None
        /\ DispatcherBusy' => drequest' # None
        /\ unfinished' < unfinished =>
              /\ dpc = "task_done"
              /\ drequest # None
              /\ unfinished' = unfinished - 1
        /\ dpc' = "returned" =>
              /\ SentinelPut'
              /\ queue' = <<>>
              /\ unfinished' = 1 ]_vars

\* process() has returned from a session of one handled command and a
\* cancel signal, with the sentinel as the one task outstanding
C22_Witness ==
    /\ dpc = "returned"
    /\ unfinished = 1
    /\ inbound = <<CmdA, Cancel>>
    /\ Len(calls) = 1
    /\ drequest = None

====
